---- MODULE Spec2Model ----
(***************************************************************************)
(* The selection driver of crossbeam-channel (src/select/machine.rs): the  *)
(* Machine state machine, driven by a caller that enumerates its cases     *)
(* cyclically, with the channels, the per-thread handle and the clock as   *)
(* its environment.                                                        *)
(***************************************************************************)
EXTENDS Integers, Sequences, FiniteSets, TLC

\* Largest number of cases a caller declares in one selection.
MaxCases == 3
\* Largest number of driver calls made after the selection has ended.
MaxReuse == 1
\* The driver calls of a selection are counted up to this number.
MaxCalls == 5

\* ------------------------------------------------------------------------
\* Case identifiers (select::CaseId)
\* ------------------------------------------------------------------------
SendIds == {"s1"}
RecvIds == {"r1"}
RealIds == SendIds \cup RecvIds
SyntheticIds == {"disconnected", "would_block", "timed_out"}
DeclarableIds == RealIds \cup SyntheticIds

is_send(id) == id \in SendIds
is_recv(id) == id \in RecvIds
b2n(b) == IF b THEN 1 ELSE 0

VARIABLES
  machine,        \* the Machine struct
  selected,       \* the handle's committed cell
  chan,           \* per endpoint: disc (disconnected), reg (this handle is a registered waiter)
  expired,        \* Instant::now() >= deadline
  cases,          \* the caller's case list, in declaration order
  pos,            \* the caller's position in the list (0-based)
  ended,          \* a call returned committed / true
  result,         \* the last call's operation, position and return value
  panicked,       \* a call panicked
  callsAfterEnd,  \* driver calls made after the selection ended
  hist            \* history of the collaborator calls the driver made

vars == <<machine, selected, chan, expired, cases, pos, ended, result,
          panicked, callsAfterEnd, hist>>

NCases == Len(cases)
Positions == 0 .. (NCases - 1)
CaseAt(p) == cases[p + 1]
RealPositions == {p \in Positions : CaseAt(p) \in RealIds}

\* ------------------------------------------------------------------------
\* State enum and Machine::with_deadline
\* ------------------------------------------------------------------------
St(tag, dc, cid) == [tag |-> tag, disconnected_count |-> dc, case_id |-> cid]
Count == St("Count", 0, "none")
Try(dc) == St("Try", dc, "none")
Promise(dc) == St("Promise", dc, "none")
Revoke(cid) == St("Revoke", 0, cid)
Fulfill(cid) == St("Fulfill", 0, cid)
Disconnected == St("Disconnected", 0, "none")
WouldBlock == St("WouldBlock", 0, "none")
TimedOut == St("TimedOut", 0, "none")
Dead == St("Dead", 0, "none")

TerminalTags == {"Disconnected", "WouldBlock", "TimedOut"}
LoopTags == {"Try", "Promise", "Revoke", "Fulfill"}

with_deadline(deadline) ==
  [ state |-> Count,
    index |-> 0,
    start_index |-> 0,
    first_id |-> "none",
    deadline |-> deadline,
    len |-> 0,
    send_case_count |-> 0,
    recv_case_count |-> 0,
    has_disconnected_case |-> FALSE,
    has_would_block_case |-> FALSE,
    has_timed_out_case |-> FALSE ]

\* ------------------------------------------------------------------------
\* History bookkeeping
\* ------------------------------------------------------------------------
\* The order of the collaborator calls within one loop iteration.
Rank == [try |-> 1, promise |-> 2, park |-> 3, revoke |-> 4, fulfill |-> 5]

NoneAt == [p \in Positions |-> "-"]
ZeroAt == [p \in Positions |-> 0]

InitHist ==
  [ tried |-> NoneAt,        \* result of try_* per position, this iteration
    promised |-> ZeroAt,     \* promise_* calls per position, since the last current_reset
    revoked |-> ZeroAt,      \* revoke_* calls per position, since the last current_reset
    fulfilled |-> ZeroAt,    \* fulfill_* calls per position, since the last current_reset
    visits |-> << >>,        \* positions the visit gate admitted, this phase
    rank |-> 0,              \* rank of the last collaborator call, this iteration
    prevRank |-> 0,          \* rank of the one before it
    countOps |-> 0,          \* collaborator calls made while in Count
    promises |-> 0,          \* promise_* calls, this iteration
    resets |-> 0,            \* current_reset calls, this iteration
    parks |-> 0,             \* current_wait_until calls, this iteration
    taborts |-> 0,           \* current_try_select(abort) calls made by transition
    paborts |-> 0,           \* current_try_select(abort) calls made in Promise visits
    parkDisc |-> -1,         \* disconnected_count when Promise ended
    parkCell |-> "-",        \* committed cell when current_wait_until was called
    deadlineSeen |-> FALSE,  \* now >= deadline was observed at the end of Fulfill
    commits |-> 0,           \* calls that returned committed
    okOps |-> 0,             \* try_* / fulfill_* calls that succeeded
    fulfillOks |-> 0,        \* fulfill_* calls that succeeded
    calls |-> 0,             \* driver calls made (counted up to MaxCalls)
    countCalls |-> 0,        \* step calls that registered a case in Count
    draws |-> 0,             \* utils::small_random calls
    looped |-> FALSE,        \* a Fulfill phase has been completed
    wrapped |-> FALSE,       \* a whole sweep was made in a terminal state
    readySeen |-> {},        \* positions whose Promise visit saw the case ready
    selectWon |-> FALSE,     \* a current_try_select of a Promise visit set the cell
    expiredAtNew |-> FALSE ] \* the deadline had passed at construction

\* A collaborator call of rank k was made in world W.
Op(W, k) ==
  [W EXCEPT !.hist.prevRank = W.hist.rank,
            !.hist.rank = k,
            !.hist.countOps = @ + b2n(W.machine.state.tag = "Count")]

\* A handle call (no rank of its own) was made in world W.
HandleOp(W) ==
  [W EXCEPT !.hist.countOps = @ + b2n(W.machine.state.tag = "Count")]

\* ------------------------------------------------------------------------
\* Handle collaborator (select::handle)
\* ------------------------------------------------------------------------
current_reset(W) ==
  [HandleOp(W) EXCEPT !.selected = "none", !.hist.resets = @ + 1,
                      !.hist.promised = ZeroAt, !.hist.revoked = ZeroAt,
                      !.hist.fulfilled = ZeroAt]

current_try_select(W, id) ==
  [HandleOp(W) EXCEPT !.selected = IF @ = "none" THEN id ELSE @]

current_selected(W) == W.selected

\* Parks until the cell is non-empty or the deadline has passed.  tsel is
\* what the cell holds after a park that ended by the deadline.
current_wait_until(W, deadline, tsel) ==
  LET W1 == [Op(W, Rank.park) EXCEPT !.hist.parks = @ + 1,
                                    !.hist.parkCell = W.selected]
  IN IF W.selected # "none" THEN W1
     ELSE IF deadline = "Some" /\ W.expired THEN [W1 EXCEPT !.selected = tsel]
     ELSE [W1 EXCEPT !.blocked = TRUE]

\* ------------------------------------------------------------------------
\* Channel collaborator (Sender / Receiver)
\* ------------------------------------------------------------------------
try_send(ch) == IF ch.disc THEN "Disconnected" ELSE IF ch.can THEN "Ok" ELSE "Full"
try_recv(ch) == IF ch.can THEN "Ok" ELSE IF ch.disc THEN "Disconnected" ELSE "Empty"
fulfill_send(ch) == IF ch.can /\ ~ch.disc THEN "Ok" ELSE "Err"
fulfill_recv(ch) == IF ch.can THEN "Ok" ELSE "Err"
is_disconnected(ch) == ch.disc
can_send(ch) == ch.can
can_recv(ch) == ch.can

\* The endpoint at position p as one call sees it: whether the operation is
\* possible right now (W.can, decided by the peers) and the disconnection flag.
Endpoint(W, p) == [can |-> W.can, disc |-> W.chan[CaseAt(p)].disc]

\* promise_send / promise_recv at position p
promise(W, p) ==
  [Op(W, Rank.promise) EXCEPT !.chan[CaseAt(p)].reg = TRUE,
                             !.hist.promised[p] = @ + 1,
                             !.hist.promises = @ + 1]
\* revoke_send / revoke_recv at position p
revoke(W, p) ==
  [Op(W, Rank.revoke) EXCEPT !.chan[CaseAt(p)].reg = FALSE,
                            !.hist.revoked[p] = @ + 1]
\* the registration is consumed by fulfill_send / fulfill_recv at position p
fulfilled(W, p, ok) ==
  [Op(W, Rank.fulfill) EXCEPT !.chan[CaseAt(p)].reg = FALSE,
                             !.hist.fulfilled[p] = @ + 1,
                             !.hist.fulfillOks = @ + b2n(ok),
                             !.hist.okOps = @ + b2n(ok)]
\* the Promise visit at position p saw its case ready and calls
\* handle::current_try_select(id)
select_on_ready(W, p, id) ==
  [current_try_select(W, id) EXCEPT !.hist.paborts = @ + 1,
                                    !.hist.readySeen = @ \cup {p},
                                    !.hist.selectWon = @ \/ W.selected = "none"]
\* try_send / try_recv at position p returned r
tried(W, p, r) ==
  [Op(W, Rank.try) EXCEPT !.hist.tried[p] = r,
                         !.hist.okOps = @ + b2n(r = "Ok")]

Ret(W, r) == [W EXCEPT !.ret = r]

\* ------------------------------------------------------------------------
\* Machine::transition
\* ------------------------------------------------------------------------
NewPhase(W, st) ==
  [W EXCEPT !.machine.state = st, !.hist.visits = << >>,
            !.hist.tried = IF st.tag \in {"Promise", "Revoke", "Fulfill"}
                             THEN NoneAt ELSE @]

NewIteration(W) ==
  [W EXCEPT !.hist.tried = NoneAt, !.hist.rank = 0, !.hist.prevRank = 0,
            !.hist.promises = 0, !.hist.resets = 0, !.hist.parks = 0, !.hist.taborts = 0,
            !.hist.paborts = 0, !.hist.parkDisc = -1, !.hist.parkCell = "-",
            !.hist.readySeen = {}, !.hist.selectWon = FALSE,
            !.hist.looped = TRUE]

\* Mutant: would_block is looked at before disconnected.
transition_Try_WouldBlockFirst(W) ==
  LET m == W.machine
      all_disconnected ==
        m.send_case_count + m.recv_case_count = m.state.disconnected_count
  IN IF m.has_would_block_case
       THEN NewPhase(W, WouldBlock)
     ELSE IF m.has_disconnected_case /\ all_disconnected
       THEN NewPhase(W, Disconnected)
     ELSE NewPhase(current_reset(W), Promise(0))

\* Mutant: the would_block case is not looked at when Try ends.
transition_Try_NoWouldBlock(W) ==
  LET m == W.machine
      all_disconnected ==
        m.send_case_count + m.recv_case_count = m.state.disconnected_count
  IN IF m.has_disconnected_case /\ all_disconnected
       THEN NewPhase(W, Disconnected)
     ELSE NewPhase(current_reset(W), Promise(0))

transition_Try(W) ==
  LET m == W.machine
      all_disconnected ==
        m.send_case_count + m.recv_case_count = m.state.disconnected_count
  IN IF m.has_disconnected_case /\ all_disconnected
       THEN NewPhase(W, Disconnected)
     ELSE IF m.has_would_block_case
       THEN NewPhase(W, WouldBlock)
     ELSE NewPhase(current_reset(W), Promise(0))

\* self.state = State::Revoke { case_id: handle::current_selected() }
EnterRevoke(W) == NewPhase(W, Revoke(current_selected(W)))

\* the disconnected_count the Promise phase ended with
ParkAt(W) == [W EXCEPT !.hist.parkDisc = W.machine.state.disconnected_count]

\* Mutant: the park is issued even when every real case was counted
\* disconnected and a disconnected case is declared.
transition_Promise_AlwaysWait(W, tsel) ==
  EnterRevoke(current_wait_until(ParkAt(W), W.machine.deadline, tsel))

transition_Promise(W, tsel) ==
  LET m == W.machine
      all_disconnected ==
        m.send_case_count + m.recv_case_count = m.state.disconnected_count
  IN IF m.has_disconnected_case /\ all_disconnected
       THEN EnterRevoke([current_try_select(Op(ParkAt(W), Rank.park), "abort")
                           EXCEPT !.hist.taborts = @ + 1])
       ELSE EnterRevoke(current_wait_until(ParkAt(W), m.deadline, tsel))

\* Mutant: Revoke is followed by Promise instead of Fulfill.
transition_Revoke_ToPromise(W) == NewPhase(W, Promise(0))

transition_Revoke(W) == NewPhase(W, Fulfill(W.machine.state.case_id))

\* Mutant: a deadline that is set counts as passed without reading the clock.
transition_Fulfill_NoClock(W) ==
  LET m == W.machine
      W1 == NewIteration(NewPhase(W, Try(0)))
  IN IF m.deadline = "Some"
       THEN [W1 EXCEPT !.machine.state = TimedOut]
       ELSE W1

\* Mutant: the deadline is not looked at when Fulfill ends.
transition_Fulfill_NoDeadline(W) == NewIteration(NewPhase(W, Try(0)))

transition_Fulfill(W) ==
  LET m == W.machine
      W1 == NewIteration(NewPhase(W, Try(0)))
  IN IF m.deadline = "Some" /\ W.expired
       THEN [W1 EXCEPT !.machine.state = TimedOut, !.hist.deadlineSeen = TRUE]
       ELSE W1

transition(W, tsel) ==
  LET tag == W.machine.state.tag
  IN CASE tag = "Try" -> transition_Try(W)
       [] tag = "Promise" -> transition_Promise(W, tsel)
       [] tag = "Revoke" -> transition_Revoke(W)
       [] tag = "Fulfill" -> transition_Fulfill(W)
       [] tag \in TerminalTags -> [NewPhase(W, W.machine.state)
                                     EXCEPT !.hist.wrapped = TRUE]
       [] tag = "Count" -> W
       [] tag = "Dead" -> [W EXCEPT !.panicked = TRUE]

\* ------------------------------------------------------------------------
\* Machine::step
\* ------------------------------------------------------------------------
\* utils::small_random(n): a value in [0, n)
small_random(n) == 0 .. (n - 1)

\* Mutant: the upper end of the gate's window is inclusive.
gate_Inclusive(m, i) == m.start_index <= i /\ i <= m.start_index + m.len

\* the visit gate: the last expression of step
gate(m, i) == m.start_index <= i /\ i < m.start_index + m.len

\* the Count branch that registers a new case
\* Mutant: a synthetic case sets its presence bit without being counted in len.
step_Count_Miscount(m, case_id) ==
  [m EXCEPT !.first_id = IF m.len = 0 THEN case_id ELSE @,
            !.len = @ + b2n(case_id \in RealIds),
            !.index = @ + 1,
            !.send_case_count = @ + b2n(is_send(case_id)),
            !.recv_case_count = @ + b2n(is_recv(case_id)),
            !.has_disconnected_case = @ \/ case_id = "disconnected",
            !.has_would_block_case = @ \/ case_id = "would_block",
            !.has_timed_out_case = @ \/ case_id = "timed_out"]

step_Count(m, case_id) ==
  [m EXCEPT !.first_id = IF m.len = 0 THEN case_id ELSE @,
            !.len = @ + 1,
            !.index = @ + 1,
            !.send_case_count = @ + b2n(is_send(case_id)),
            !.recv_case_count = @ + b2n(is_recv(case_id)),
            !.has_disconnected_case = @ \/ case_id = "disconnected",
            !.has_would_block_case = @ \/ case_id = "would_block",
            !.has_timed_out_case = @ \/ case_id = "timed_out"]

\* the end of the Count sweep: the first identifier is seen again
step_EnterTry(m, rnd) ==
  [m EXCEPT !.state = Try(0), !.index = 0, !.start_index = rnd]

\* the end of step: the slot i is consumed and the gate decides on it
step_Gate(W, p) ==
  [W EXCEPT !.machine.index = @ + 1,
            !.gate = gate(W.machine, W.machine.index),
            !.hist.visits = IF gate(W.machine, W.machine.index)
                              THEN Append(@, p) ELSE @]

\* Mutant: a phase is over after len slots instead of 2 * len.
step_Visit_OneLen(W, p, tsel) ==
  step_Gate(IF W.machine.index >= W.machine.len
              THEN [transition(W, tsel) EXCEPT !.machine.index = 0]
              ELSE W,
            p)

\* the part of step after the Count block
step_Visit(W, p, tsel) ==
  step_Gate(IF W.machine.index >= 2 * W.machine.len
              THEN [transition(W, tsel) EXCEPT !.machine.index = 0]
              ELSE W,
            p)

step(W, p, case_id, rnd, tsel) ==
  IF W.machine.state.tag = "Dead"
    THEN [W EXCEPT !.panicked = TRUE]
  ELSE IF W.machine.state.tag = "Count"
    THEN IF W.machine.first_id # case_id
           THEN [W EXCEPT !.machine = step_Count(W.machine, case_id),
                          !.hist.countCalls = @ + 1,
                          !.gate = FALSE]
           ELSE step_Visit([W EXCEPT !.machine = step_EnterTry(W.machine, rnd),
                                     !.hist.draws = @ + 1],
                           p, tsel)
  ELSE step_Visit(W, p, tsel)

\* ------------------------------------------------------------------------
\* Machine::send
\* ------------------------------------------------------------------------
\* Mutant: a successful try_send does not return early.
send_Try_NoReturn(W, p) ==
  LET r == try_send(Endpoint(W, p))
      W1 == tried(W, p, r)
  IN IF r = "Disconnected"
       THEN Ret([W1 EXCEPT !.machine.state.disconnected_count = @ + 1], "Err")
       ELSE Ret(W1, "Err")

send_Try(W, p) ==
  LET r == try_send(Endpoint(W, p))
      W1 == tried(W, p, r)
  IN IF r = "Ok" THEN Ret(W1, "Ok")
     ELSE IF r = "Full" THEN Ret(W1, "Err")
     ELSE Ret([W1 EXCEPT !.machine.state.disconnected_count = @ + 1], "Err")

\* Mutant: a case seen ready right after its registration does not cancel
\* the park.
send_Promise_NoSelect(W, p) ==
  LET W1 == promise(W, p)
      ch == Endpoint(W1, p)
  IN IF is_disconnected(ch)
       THEN Ret([W1 EXCEPT !.machine.state.disconnected_count = @ + 1], "Err")
     ELSE IF can_send(ch)
       THEN Ret([W1 EXCEPT !.hist.readySeen = @ \cup {p}], "Err")
     ELSE Ret(W1, "Err")

send_Promise(W, p) ==
  LET W1 == promise(W, p)
      ch == Endpoint(W1, p)
  IN IF is_disconnected(ch)
       THEN Ret([W1 EXCEPT !.machine.state.disconnected_count = @ + 1], "Err")
     ELSE IF can_send(ch)
       THEN Ret(select_on_ready(W1, p, "abort"), "Err")
     ELSE Ret(W1, "Err")

\* Mutant: the committed case is revoked too.
send_Revoke_Always(W, p) == Ret(revoke(W, p), "Err")

send_Revoke(W, p) ==
  IF CaseAt(p) # W.machine.state.case_id
    THEN Ret(revoke(W, p), "Err")
    ELSE Ret(W, "Err")

send_Fulfill(W, p) ==
  IF CaseAt(p) = W.machine.state.case_id
    THEN LET r == fulfill_send(Endpoint(W, p))
         IN Ret(fulfilled(W, p, r = "Ok"), r)
    ELSE Ret(W, "Err")

\* the match on self.state, S being the world after step
send_Match(S, p) ==
  IF S.panicked THEN Ret(S, "panic")
  ELSE IF ~S.gate THEN Ret(S, "Err")
  ELSE CASE S.machine.state.tag = "Try" -> send_Try(S, p)
         [] S.machine.state.tag = "Promise" -> send_Promise(S, p)
         [] S.machine.state.tag = "Revoke" -> send_Revoke(S, p)
         [] S.machine.state.tag = "Fulfill" -> send_Fulfill(S, p)
         [] S.machine.state.tag \in TerminalTags \cup {"Count"} -> Ret(S, "Err")
         [] S.machine.state.tag = "Dead" -> Ret([S EXCEPT !.panicked = TRUE], "panic")

send(W, p, rnd, tsel) == send_Match(step(W, p, CaseAt(p), rnd, tsel), p)

\* ------------------------------------------------------------------------
\* Machine::recv
\* ------------------------------------------------------------------------
\* Mutant: a successful try_recv does not return early.
recv_Try_NoReturn(W, p) ==
  LET r == try_recv(Endpoint(W, p))
      W1 == tried(W, p, r)
  IN IF r = "Disconnected"
       THEN Ret([W1 EXCEPT !.machine.state.disconnected_count = @ + 1], "Err")
       ELSE Ret(W1, "Err")

recv_Try(W, p) ==
  LET r == try_recv(Endpoint(W, p))
      W1 == tried(W, p, r)
  IN IF r = "Ok" THEN Ret(W1, "Ok")
     ELSE IF r = "Empty" THEN Ret(W1, "Err")
     ELSE Ret([W1 EXCEPT !.machine.state.disconnected_count = @ + 1], "Err")

\* Mutant: a ready case puts its own identifier into the cell.
recv_Promise_SelectSelf(W, p) ==
  LET W1 == promise(W, p)
      ch == Endpoint(W1, p)
      is_disconn == is_disconnected(ch)
      can_rcv == can_recv(ch)
  IN IF is_disconn /\ ~can_rcv
       THEN Ret([W1 EXCEPT !.machine.state.disconnected_count = @ + 1], "Err")
     ELSE IF can_rcv
       THEN Ret(select_on_ready(W1, p, CaseAt(p)), "Err")
     ELSE Ret(W1, "Err")

recv_Promise(W, p) ==
  LET W1 == promise(W, p)
      ch == Endpoint(W1, p)
      is_disconn == is_disconnected(ch)
      can_rcv == can_recv(ch)
  IN IF is_disconn /\ ~can_rcv
       THEN Ret([W1 EXCEPT !.machine.state.disconnected_count = @ + 1], "Err")
     ELSE IF can_rcv
       THEN Ret(select_on_ready(W1, p, "abort"), "Err")
     ELSE Ret(W1, "Err")

recv_Revoke(W, p) ==
  IF CaseAt(p) # W.machine.state.case_id
    THEN Ret(revoke(W, p), "Err")
    ELSE Ret(W, "Err")

\* Mutant: fulfill_recv is called whatever the committed identifier is.
recv_Fulfill_Any(W, p) ==
  LET r == fulfill_recv(Endpoint(W, p))
  IN Ret(fulfilled(W, p, r = "Ok"), r)

recv_Fulfill(W, p) ==
  IF CaseAt(p) = W.machine.state.case_id
    THEN LET r == fulfill_recv(Endpoint(W, p))
         IN Ret(fulfilled(W, p, r = "Ok"), r)
    ELSE Ret(W, "Err")

\* the match on self.state, S being the world after step
recv_Match(S, p) ==
  IF S.panicked THEN Ret(S, "panic")
  ELSE IF ~S.gate THEN Ret(S, "Err")
  ELSE CASE S.machine.state.tag = "Try" -> recv_Try(S, p)
         [] S.machine.state.tag = "Promise" -> recv_Promise(S, p)
         [] S.machine.state.tag = "Revoke" -> recv_Revoke(S, p)
         [] S.machine.state.tag = "Fulfill" -> recv_Fulfill(S, p)
         [] S.machine.state.tag \in TerminalTags \cup {"Count"} -> Ret(S, "Err")
         [] S.machine.state.tag = "Dead" -> Ret([S EXCEPT !.panicked = TRUE], "panic")

recv(W, p, rnd, tsel) == recv_Match(step(W, p, CaseAt(p), rnd, tsel), p)

\* ------------------------------------------------------------------------
\* Machine::disconnected / would_block / timed_out
\* ------------------------------------------------------------------------
\* the comparison self.state == terminal, S being the world after step
\* Mutant: the state comparison is made on closed slots only.
synthetic_Match_ClosedSlot(S, terminal) ==
  IF S.panicked THEN Ret(S, "panic")
  ELSE IF S.gate THEN Ret(S, "false")
  ELSE Ret(S, IF S.machine.state = terminal THEN "true" ELSE "false")

synthetic_Match(S, terminal) ==
  IF S.panicked THEN Ret(S, "panic")
  ELSE IF ~S.gate THEN Ret(S, "false")
  ELSE Ret(S, IF S.machine.state = terminal THEN "true" ELSE "false")

synthetic(W, p, id, terminal, rnd, tsel) ==
  synthetic_Match(step(W, p, id, rnd, tsel), terminal)

disconnected(W, p, rnd, tsel) == synthetic(W, p, "disconnected", Disconnected, rnd, tsel)
would_block(W, p, rnd, tsel) == synthetic(W, p, "would_block", WouldBlock, rnd, tsel)
timed_out(W, p, rnd, tsel) == synthetic(W, p, "timed_out", TimedOut, rnd, tsel)

\* ------------------------------------------------------------------------
\* The caller and the environment
\* ------------------------------------------------------------------------
World(can) ==
  [ machine |-> machine, selected |-> selected, chan |-> chan,
    expired |-> expired, hist |-> hist, can |-> can, gate |-> FALSE,
    blocked |-> FALSE, panicked |-> FALSE, ret |-> "-" ]

Dispatch(W, p, rnd, tsel) ==
  LET id == CaseAt(p)
  IN CASE is_send(id) -> send(W, p, rnd, tsel)
       [] is_recv(id) -> recv(W, p, rnd, tsel)
       [] id = "disconnected" -> disconnected(W, p, rnd, tsel)
       [] id = "would_block" -> would_block(W, p, rnd, tsel)
       [] id = "timed_out" -> timed_out(W, p, rnd, tsel)

Committed(r) == r \in {"Ok", "true"}

\* One call of the driver operation declared at position p.
DriverCall(p, can, rnd, tsel) ==
  \E W \in {Dispatch(World(can), p, rnd, tsel)} :
     /\ ~W.blocked
     /\ machine' = W.machine
     /\ selected' = W.selected
     /\ chan' = W.chan
     /\ hist' = [W.hist EXCEPT !.commits = @ + b2n(Committed(W.ret)),
                               !.calls = IF @ < MaxCalls THEN @ + 1 ELSE @]
     /\ result' = [op |-> CaseAt(p), ret |-> W.ret]
     /\ panicked' = (panicked \/ W.panicked)
     /\ ended' = (ended \/ Committed(W.ret))
     /\ pos' = (p + 1) % NCases
     /\ UNCHANGED <<expired, cases>>

\* The inputs one call reads: the random offset (read when Count ends), the
\* cell a timed-out park leaves (read when Promise ends) and the endpoint's
\* readiness (read by the operations on real cases).
RandomChoices ==
  IF machine.state.tag = "Count" /\ machine.len > 0
    THEN small_random(machine.len) ELSE {0}
TimeoutCells ==
  IF machine.state.tag = "Promise" /\ machine.index >= 2 * machine.len
    THEN {"none", "abort"} ELSE {"none"}
Readiness(p) == IF CaseAt(p) \in RealIds THEN BOOLEAN ELSE {FALSE}

\* The caller's loop: every case in declaration order, until one commits.
Call ==
  /\ ~ended
  /\ ~panicked
  /\ \E can \in Readiness(pos), rnd \in RandomChoices, tsel \in TimeoutCells :
       DriverCall(pos, can, rnd, tsel)
  /\ UNCHANGED callsAfterEnd

\* A caller that uses the driver again after the selection has ended.
Reuse ==
  /\ ended
  /\ ~panicked
  /\ callsAfterEnd < MaxReuse
  /\ \E p \in Positions :
       \E can \in Readiness(p), rnd \in RandomChoices, tsel \in TimeoutCells :
         DriverCall(p, can, rnd, tsel)
  /\ callsAfterEnd' = callsAfterEnd + 1

Declared == {cases[i] : i \in 1 .. Len(cases)}

\* A peer disconnects an endpoint.
PeerDisconnect(c) ==
  /\ ~ended
  /\ c \in Declared \cap RealIds
  /\ ~chan[c].disc
  /\ chan' = [chan EXCEPT ![c].disc = TRUE]
  /\ UNCHANGED <<machine, selected, expired, cases, pos, ended, result,
                 panicked, callsAfterEnd, hist>>

\* A channel's waker selects the registered case on the handle.
PeerSelect(c) ==
  /\ ~ended
  /\ c \in Declared \cap RealIds
  /\ chan[c].reg
  /\ selected = "none"
  /\ selected' = c
  /\ UNCHANGED <<machine, chan, expired, cases, pos, ended, result,
                 panicked, callsAfterEnd, hist>>

\* The deadline passes.
Tick ==
  /\ ~ended
  /\ machine.deadline = "Some"
  /\ ~expired
  /\ expired' = TRUE
  /\ UNCHANGED <<machine, selected, chan, cases, pos, ended, result,
                 panicked, callsAfterEnd, hist>>

Distinct(s) == \A i, j \in 1 .. Len(s) : i # j => s[i] # s[j]
CaseLists ==
  UNION {{s \in [1 .. n -> DeclarableIds] : Distinct(s)} : n \in 1 .. MaxCases}

Init ==
  /\ cases \in CaseLists
  /\ \E d \in {"None", "Some"} :
       /\ machine = with_deadline(d)
       /\ expired \in (IF d = "Some" THEN BOOLEAN ELSE {FALSE})
  /\ selected \in {"none", "abort"}
  /\ chan \in [RealIds -> [disc : BOOLEAN, reg : {FALSE}]]
  /\ \A c \in RealIds \ Declared : ~chan[c].disc
  /\ pos = 0
  /\ ended = FALSE
  /\ result = [op |-> "-", ret |-> "-"]
  /\ panicked = FALSE
  /\ callsAfterEnd = 0
  /\ hist = [InitHist EXCEPT !.expiredAtNew = expired]

Environment ==
  \/ \E c \in RealIds : PeerDisconnect(c)
  \/ \E c \in RealIds : PeerSelect(c)
  \/ Tick

Next == Call \/ Environment

Spec == Init /\ [][Next]_vars

NextReuse == Call \/ Reuse \/ Environment

SpecReuse == Init /\ [][NextReuse]_vars


\* A caller that may declare the same identifier more than once.
DupCaseLists == UNION {[1 .. n -> DeclarableIds] : n \in 1 .. MaxCases}

InitDup ==
  /\ cases \in DupCaseLists
  /\ \E d \in {"None", "Some"} :
       /\ machine = with_deadline(d)
       /\ expired \in (IF d = "Some" THEN BOOLEAN ELSE {FALSE})
  /\ selected \in {"none", "abort"}
  /\ chan \in [RealIds -> [disc : BOOLEAN, reg : {FALSE}]]
  /\ \A c \in RealIds \ Declared : ~chan[c].disc
  /\ pos = 0
  /\ ended = FALSE
  /\ result = [op |-> "-", ret |-> "-"]
  /\ panicked = FALSE
  /\ callsAfterEnd = 0
  /\ hist = [InitHist EXCEPT !.expiredAtNew = expired]

SpecDup == InitDup /\ [][Next]_vars

\* ------------------------------------------------------------------------
\* Properties
\* ------------------------------------------------------------------------
tag == machine.state.tag
NReal == Cardinality(RealPositions)
Matching(t) ==
  CASE t = "Disconnected" -> "disconnected"
    [] t = "WouldBlock" -> "would_block"
    [] t = "TimedOut" -> "timed_out"
    [] OTHER -> "-"

\* C1: once a selection has ended (a call returned committed or true) the
\* driver is in state Dead, and a further call of any driver operation
\* panics instead of acting.
C1_DeadAfterEnd ==
  ended => /\ tag = "Dead"
           /\ (callsAfterEnd > 0 => panicked)

\* C2: in a selection whose caller stops at the first committed result, at
\* most one call returns committed, at most one channel operation is
\* performed successfully and at most one fulfill_* succeeds.
C2_Exclusivity ==
  /\ hist.commits <= 1
  /\ hist.okOps <= 1
  /\ hist.fulfillOks <= 1
  /\ (hist.okOps = 1 => ended /\ result.ret = "Ok")

C2_Witness ==
  /\ ended
  /\ hist.fulfillOks = 1
  /\ hist.commits = 1
  /\ NReal = 2

\* C3: every case on which promise_* was called in a loop iteration gets
\* exactly one of revoke_* or fulfill_* before the iteration is over and
\* before the selection ends; no case gets both and none is left registered.
C3_RegistrationBalance ==
  /\ \A p \in Positions :
       /\ hist.promised[p] <= 1
       /\ hist.revoked[p] + hist.fulfilled[p] <= hist.promised[p]
       /\ (CaseAt(p) \in RealIds =>
             chan[CaseAt(p)].reg =
               (hist.promised[p] > hist.revoked[p] + hist.fulfilled[p]))
  /\ (ended \/ tag \in {"Count", "Try"} \cup TerminalTags) =>
       \A p \in Positions :
         /\ hist.revoked[p] + hist.fulfilled[p] = hist.promised[p]
         /\ (CaseAt(p) \in RealIds => ~chan[CaseAt(p)].reg)

C3_Witness ==
  /\ ended
  /\ \E p, q \in RealPositions :
       /\ hist.promised[p] = 1 /\ hist.fulfilled[p] = 1 /\ hist.revoked[p] = 0
       /\ hist.promised[q] = 1 /\ hist.revoked[q] = 1 /\ hist.fulfilled[q] = 0

\* C4: after Count, start_index is in [0, len); in every phase the visit
\* gate admits the declared cases in the cyclic order start_index,
\* start_index + 1, ..., len - 1, 0, ..., start_index - 1, each exactly once
\* in a complete phase of 2 * len calls.
Rotation == [k \in 1 .. machine.len |-> (machine.start_index + (k - 1)) % machine.len]
Admitted ==
  IF machine.index <= machine.start_index THEN 0
  ELSE IF machine.index >= machine.start_index + machine.len THEN machine.len
  ELSE machine.index - machine.start_index

C4_RotationCoverage ==
  tag # "Count" =>
    /\ machine.len = NCases
    /\ 0 <= machine.start_index /\ machine.start_index < machine.len
    /\ machine.index <= 2 * machine.len
    /\ hist.visits = SubSeq(Rotation, 1, Admitted)
    /\ (machine.index = 2 * machine.len => hist.visits = Rotation)

C4_Witness ==
  /\ tag = "Promise"
  /\ machine.len = 3
  /\ machine.start_index = 1
  /\ machine.index = 2 * machine.len
  /\ hist.visits = <<1, 2, 0>>

\* C5: no channel or handle operation happens during the Count sweep, and
\* within a loop iteration the collaborator calls are ordered: try_* before
\* promise_*, promise_* before the park (or the abort replacing it), the
\* park before revoke_*, revoke_* before fulfill_*.
C5_PhaseOrdering ==
  /\ hist.countOps = 0
  /\ hist.prevRank <= hist.rank
  /\ (tag = "Count" => hist.rank = 0)
  /\ (tag = "Try" => hist.rank <= Rank.try)
  /\ (tag = "Promise" => hist.rank <= Rank.promise)
  /\ (tag = "Revoke" => hist.rank \in {Rank.park, Rank.revoke})
  /\ (tag = "Fulfill" => hist.rank \in {Rank.park, Rank.revoke, Rank.fulfill})

C5_Witness ==
  /\ tag = "Fulfill"
  /\ hist.prevRank = Rank.revoke
  /\ hist.rank = Rank.fulfill
  /\ hist.promises = 2

TerminalStep ==
  tag \in TerminalTags =>
    /\ machine'.state = machine.state \/ machine'.state.tag = "Dead"
    /\ hist'.okOps = hist.okOps
    /\ hist'.rank = hist.rank
    /\ \A c \in RealIds : chan'[c].reg = chan[c].reg
    /\ (machine' # machine => result'.ret \in {"Err", "false", "true"})
    /\ ((machine' # machine /\ result'.ret = "true") =>
          /\ result'.op = Matching(tag)
          /\ machine'.state.tag = "Dead")
    /\ (machine'.state.tag = "Dead" => result'.ret = "true")

\* C6: once Disconnected, WouldBlock or TimedOut is entered the driver stays
\* there, send and recv perform no channel operation and do not commit, the
\* non-matching synthetic calls return false, and the only transition out
\* is to Dead, taken when the matching synthetic call returns true.
C6_TerminalStability == [][TerminalStep]_vars

EntersTimedOut == machine'.state.tag = "TimedOut" /\ tag # "TimedOut"

\* C7: TimedOut is entered, and timed_out() returns true, only after
\* now >= deadline was observed at the end of a Fulfill phase; it is never
\* entered from Count, Try, Promise or Revoke, and never without a deadline.
C7_NoSpuriousTimeout ==
  /\ [](tag = "TimedOut" =>
          hist.deadlineSeen /\ machine.deadline = "Some" /\ expired)
  /\ []((result.op = "timed_out" /\ result.ret = "true") => tag = "TimedOut")
  /\ [][EntersTimedOut =>
          (tag = "Fulfill" /\ machine.index = 2 * machine.len /\ expired)]_vars

C7_Witness ==
  /\ tag = "TimedOut"
  /\ result.op = "timed_out"
  /\ result.ret = "true"

\* C8: the driver enters Disconnected, WouldBlock or TimedOut only when the
\* matching synthetic case was declared; otherwise it keeps cycling
\* Try -> Promise -> Revoke -> Fulfill -> Try.
C8_OnlyDeclaredOutcomes ==
  tag \in TerminalTags => Matching(tag) \in Declared

\* C9: a real case that is ready when it is visited in Try commits in that
\* very call, before any promise_*, current_reset or park of the iteration,
\* and every case visited before it in rotation order was not ready.
C9_TryCommits ==
  \A p \in Positions :
    hist.tried[p] = "Ok" =>
      /\ ended
      /\ result = [op |-> CaseAt(p), ret |-> "Ok"]
      /\ tag = "Try"
      /\ hist.rank = Rank.try
      /\ hist.promises = 0 /\ hist.resets = 0 /\ hist.parks = 0 /\ hist.taborts = 0
      /\ Len(hist.visits) >= 1
      /\ hist.visits[Len(hist.visits)] = p
      /\ \A k \in 1 .. Len(hist.visits) :
           /\ hist.visits[k] = (machine.start_index + (k - 1)) % machine.len
           /\ (k < Len(hist.visits) /\ CaseAt(hist.visits[k]) \in RealIds =>
                 hist.tried[hist.visits[k]] \in {"Full", "Empty", "Disconnected"})
      /\ \A q \in Positions :
           (\A k \in 1 .. Len(hist.visits) : hist.visits[k] # q) => hist.tried[q] = "-"

C9_Witness ==
  /\ ended
  /\ machine.start_index = 2
  /\ Len(hist.visits) = 2
  /\ hist.tried[hist.visits[1]] \in {"Full", "Empty"}
  /\ hist.tried[hist.visits[2]] = "Ok"

\* C10: current_wait_until is called only by the transition that ends a
\* Promise phase, at most once per loop iteration, after current_reset and
\* after promise_* on every real case; when a disconnected case is declared
\* and every real case was counted disconnected in Promise it is not called
\* and current_try_select(abort) is issued instead.
C10_SingleSuspension ==
  /\ hist.parks <= 1
  /\ hist.parks + hist.taborts <= 1
  /\ (tag \in {"Count", "Try", "Promise"} \cup TerminalTags =>
        hist.parks = 0 /\ hist.taborts = 0)
  /\ (tag \in {"Revoke", "Fulfill"} =>
        /\ hist.parks + hist.taborts = 1
        /\ hist.resets = 1
        /\ hist.promises = NReal
        /\ \A p \in RealPositions : hist.promised[p] = 1
        /\ hist.taborts = 1 <=>
             ("disconnected" \in Declared /\ hist.parkDisc = NReal))

C10_Witness ==
  /\ tag = "Revoke"
  /\ hist.parks = 1
  /\ hist.parkCell = "none"
  /\ NReal = 2
  /\ "disconnected" \in Declared

\* C11 as stated: with zero real cases and only a would_block case
\* declared, would_block() returns true on the first sweep after the
\* counting sweep, that is on the second call.
C11_TrueOnSecondCall ==
  (cases = <<"would_block">> /\ hist.calls = 2) => result.ret = "true"

\* C11 as amended: with zero real cases and only a would_block case
\* declared, would_block() returns false on its first three calls (the
\* counting call and the two slots of the Try phase) and true on the fourth,
\* which makes the Try -> WouldBlock transition.
C11_TrueOnFourthCall ==
  cases = <<"would_block">> =>
    /\ hist.calls <= 4
    /\ (hist.calls < 4 => ~ended /\ result.ret # "true" /\ tag \in {"Count", "Try"})
    /\ (hist.calls = 4 =>
          /\ ended
          /\ result = [op |-> "would_block", ret |-> "true"]
          /\ tag = "WouldBlock")

C11_Witness ==
  /\ cases = <<"would_block">>
  /\ hist.calls = 4
  /\ result.ret = "true"

PosOf(id) == CHOOSE p \in Positions : CaseAt(p) = id
InVisits(p) == \E k \in 1 .. Len(hist.visits) : hist.visits[k] = p
ExpiredAtNew ==
  /\ machine.deadline = "Some"
  /\ hist.expiredAtNew
  /\ "would_block" \notin Declared

\* C12 as stated: with a deadline already passed at construction and no
\* would_block case, a real case ready in the first Try is committed;
\* otherwise the driver reaches TimedOut after exactly one
\* Try-Promise-Revoke-Fulfill iteration with exactly one park, and
\* timed_out() then returns true.
C12_CommitOrTimedOut ==
  ExpiredAtNew =>
    /\ tag \in {"Count", "Try", "Promise", "Revoke", "Fulfill", "TimedOut"}
    /\ (hist.looped => tag = "TimedOut")
    /\ (tag \in {"Revoke", "Fulfill"} => hist.parks = 1)
    /\ (ended => \/ tag = "Try" /\ result.ret = "Ok"
                 \/ tag = "TimedOut" /\ result = [op |-> "timed_out", ret |-> "true"])

\* C12 as amended: with a deadline already passed at construction and no
\* would_block case, a real case ready when visited in the first Try is
\* committed despite the deadline; otherwise the selection either ends in
\* the first Try as Disconnected (disconnected declared, every real case
\* disconnected) or makes one Try-Promise-Revoke-Fulfill iteration with one
\* park (or the abort replacing it), in which a case selected by a waker may
\* still commit through Fulfill; when that iteration ends the driver is in
\* TimedOut and timed_out(), if declared, returns true at its next admitted
\* call.
C12_ExpiredAtConstruction ==
  ExpiredAtNew =>
    /\ \A p \in Positions : hist.tried[p] = "Ok" => ended /\ result.ret = "Ok"
    /\ tag # "WouldBlock"
    /\ (tag = "Disconnected" =>
          /\ "disconnected" \in Declared
          /\ ~hist.looped
          /\ \A p \in RealPositions : hist.tried[p] = "Disconnected")
    /\ (hist.looped => tag = "TimedOut")
    /\ (tag \in {"Revoke", "Fulfill"} =>
          /\ ~hist.looped
          /\ hist.parks + hist.taborts = 1
          /\ (hist.taborts = 1 =>
                "disconnected" \in Declared /\ hist.parkDisc = NReal))
    /\ (ended /\ tag = "Fulfill" => hist.fulfillOks = 1 /\ result.ret = "Ok")
    /\ ((tag = "TimedOut" /\ "timed_out" \in Declared) =>
          /\ ~hist.wrapped
          /\ (InVisits(PosOf("timed_out")) =>
                ended /\ result = [op |-> "timed_out", ret |-> "true"]))

C12_Witness ==
  /\ ExpiredAtNew
  /\ NReal = 2
  /\ hist.looped
  /\ tag = "TimedOut"
  /\ ended
  /\ result = [op |-> "timed_out", ret |-> "true"]

\* C13 as stated: when the Promise visit of case A sees A ready and calls
\* current_try_select(abort), the identifier read after the park is A's and
\* the selection commits to A through Fulfill in the same iteration.
C13_WakeReturnsReadyCase ==
  \A p \in RealPositions :
    (tag \in {"Revoke", "Fulfill"} /\ hist.readySeen = {p}) =>
      machine.state.case_id = CaseAt(p)

\* C13 as amended: when the Promise visit of a ready case A calls
\* current_try_select(abort) and that call wins the cell, the identifier read
\* after the park is abort: every real case is revoked, fulfill is called on
\* no case and nothing commits in that iteration, so A can commit only
\* through try_send/try_recv in a later Try.
C13_ReadyCaseAborts ==
  (tag \in {"Revoke", "Fulfill"} /\ hist.selectWon) =>
    /\ hist.readySeen # {}
    /\ machine.state.case_id = "abort"
    /\ hist.parkCell = "abort"
    /\ ~ended
    /\ hist.fulfillOks = 0
    /\ \A p \in RealPositions :
         /\ hist.fulfilled[p] = 0
         /\ (tag = "Fulfill" => hist.revoked[p] = 1)

C13_Witness ==
  /\ tag = "Fulfill"
  /\ hist.selectWon
  /\ NReal = 2
  /\ \E p \in RealPositions : hist.readySeen = {p}
  /\ machine.index = 2 * machine.len

TriedDisconnected ==
  Cardinality({p \in RealPositions : hist.tried[p] = "Disconnected"})

\* the driver call that ends a Try phase
TryExit ==
  /\ tag = "Try"
  /\ machine.index = 2 * machine.len
  /\ machine' # machine

TryExitStep ==
  TryExit =>
    IF "disconnected" \in Declared
       /\ TriedDisconnected = machine.send_case_count + machine.recv_case_count
      THEN machine'.state = Disconnected
    ELSE IF "would_block" \in Declared
      THEN machine'.state = WouldBlock
    ELSE /\ machine'.state.tag = "Promise"
         /\ hist.resets = 0 /\ hist'.resets = 1
         /\ hist'.promises <= 1
         /\ machine'.state.disconnected_count <= hist'.promises

\* C14: at the end of every Try phase the next state is Disconnected iff a
\* disconnected case is declared and the number of real cases that reported
\* disconnected in this Try equals send_case_count + recv_case_count;
\* otherwise WouldBlock iff a would_block case is declared; otherwise the
\* handle is reset and the state is Promise with disconnected_count 0 (the
\* call that makes the transition may already make the first Promise visit).
C14_TryExitPriority == [][TryExitStep]_vars

C14_Witness ==
  /\ tag = "WouldBlock"
  /\ "disconnected" \notin Declared
  /\ NReal = 2
  /\ TriedDisconnected = NReal

\* C15: start_index is drawn afresh on every entry to the Try phase,
\* including each re-entry from Fulfill: a Try phase entered after a
\* completed Fulfill phase has seen at least two draws.
C15_DrawPerTry ==
  (tag = "Try" /\ hist.looped) => hist.draws >= 2

\* what holds in every state of an iteration whose Promise phase saw a
\* case ready right after registering it
ReadySeenInPromise ==
  hist.readySeen # {} =>
    /\ tag \in {"Promise", "Revoke", "Fulfill"}
    /\ (tag = "Promise" =>
          /\ selected # "none"
          /\ machine.state.disconnected_count
               <= hist.promises - Cardinality(hist.readySeen))
    /\ (tag \in {"Revoke", "Fulfill"} =>
          /\ hist.parks = 1
          /\ hist.taborts = 0
          /\ hist.parkCell \notin {"none", "-"}
          /\ hist.parkDisc < NReal
          /\ machine.state.case_id = hist.parkCell)

PromiseExitOnReady ==
  (tag = "Promise" /\ hist.readySeen # {}
   /\ machine.index = 2 * machine.len /\ machine' # machine) =>
    machine'.state.tag = "Revoke"

FulfillExitOnReady ==
  tag = "Fulfill" /\ hist.readySeen # {}
  /\ machine.index = 2 * machine.len /\ machine' # machine

\* C16 as stated: if a Promise visit sees its case ready right after
\* registering it, the cell is non-empty when current_wait_until is called,
\* the park does not block, and the driver goes on to Revoke, Fulfill and a
\* new Try; a receive case that is disconnected but still has a message is
\* not counted as disconnected.
C16_ReadyThenNewTry ==
  /\ []ReadySeenInPromise
  /\ [][PromiseExitOnReady]_vars
  /\ [][FulfillExitOnReady => machine'.state.tag = "Try"]_vars

\* C16 as amended: if a Promise visit sees its case ready right after
\* registering it, the cell is non-empty when current_wait_until is called,
\* the park does not block and the driver goes on to Revoke and Fulfill;
\* unless Fulfill commits a case that a waker had selected, the Fulfill phase
\* is followed by a new Try, or by TimedOut when the deadline has passed at
\* that point (the case seen ready is then not committed); a receive case
\* that is disconnected but still has a message is not counted as
\* disconnected.
C16_NoLostWakeup ==
  /\ []ReadySeenInPromise
  /\ [][PromiseExitOnReady]_vars
  /\ [][FulfillExitOnReady =>
          machine'.state.tag =
            IF machine.deadline = "Some" /\ expired THEN "TimedOut" ELSE "Try"]_vars

C16_Witness ==
  /\ tag = "Fulfill"
  /\ machine.index = 2 * machine.len
  /\ hist.parks = 1
  /\ chan["r1"].disc
  /\ \E p \in hist.readySeen : CaseAt(p) = "r1"

RevokeFulfillTargets ==
  LET c == machine.state.case_id
  IN /\ (tag = "Revoke" =>
           \A p \in RealPositions :
             /\ hist.revoked[p] <= b2n(CaseAt(p) # c)
             /\ hist.fulfilled[p] = 0)
     /\ (tag = "Fulfill" =>
           /\ \A p \in RealPositions :
                /\ hist.revoked[p] = b2n(CaseAt(p) # c)
                /\ hist.fulfilled[p] <= b2n(CaseAt(p) = c)
           /\ (c = "abort" =>
                 \A p \in RealPositions :
                   hist.revoked[p] = 1 /\ hist.fulfilled[p] = 0)
           /\ (ended => hist.fulfillOks = 1 /\ result.ret = "Ok")
           /\ (~ended => hist.fulfillOks = 0 /\ hist.commits = 0)
           /\ ((~ended /\ machine.index = 2 * machine.len) =>
                 \A p \in RealPositions :
                   hist.fulfilled[p] = b2n(CaseAt(p) = c)))

FulfillExit ==
  /\ tag = "Fulfill"
  /\ machine.index = 2 * machine.len
  /\ machine' # machine

\* C17: with committed identifier c, revoke_* is called on exactly the real
\* cases whose identifier differs from c and fulfill_* only on the case whose
\* identifier equals c; with c = abort every real case is revoked and
\* nothing is fulfilled; when fulfilment fails or c is abort the sweep
\* completes without commit and the next state is Try, or TimedOut if the
\* deadline has passed at that point.
C17_RevokeFulfillTargeting ==
  /\ []RevokeFulfillTargets
  /\ [][FulfillExit =>
          machine'.state.tag =
            IF machine.deadline = "Some" /\ expired THEN "TimedOut" ELSE "Try"]_vars

C17_Witness ==
  /\ tag = "Fulfill"
  /\ machine.index = 2 * machine.len
  /\ ~ended
  /\ \E p, q \in RealPositions :
       /\ CaseAt(p) = machine.state.case_id
       /\ hist.fulfilled[p] = 1
       /\ hist.revoked[q] = 1

CountSum ==
  machine.send_case_count + machine.recv_case_count
    + b2n(machine.has_disconnected_case) + b2n(machine.has_would_block_case)
    + b2n(machine.has_timed_out_case)

CountAccounts ==
  tag # "Count" =>
    /\ machine.len = hist.countCalls
    /\ machine.len >= 1
    /\ machine.first_id = cases[1]
    /\ CountSum <= machine.len
    /\ (Distinct(cases) =>
          /\ CountSum = machine.len
          /\ machine.len = NCases
          /\ machine.send_case_count =
               Cardinality({p \in Positions : is_send(CaseAt(p))})
          /\ machine.recv_case_count =
               Cardinality({p \in Positions : is_recv(CaseAt(p))})
          /\ machine.has_disconnected_case = ("disconnected" \in Declared)
          /\ machine.has_would_block_case = ("would_block" \in Declared)
          /\ machine.has_timed_out_case = ("timed_out" \in Declared))

CountFrozen ==
  tag # "Count" =>
    /\ machine'.state.tag # "Count"
    /\ machine'.len = machine.len
    /\ machine'.first_id = machine.first_id
    /\ machine'.send_case_count = machine.send_case_count
    /\ machine'.recv_case_count = machine.recv_case_count
    /\ machine'.has_disconnected_case = machine.has_disconnected_case
    /\ machine'.has_would_block_case = machine.has_would_block_case
    /\ machine'.has_timed_out_case = machine.has_timed_out_case

\* C18: when the Count sweep ends, len equals the number of step calls made
\* during Count, send_case_count + recv_case_count + the three presence
\* bits <= len with equality when no identifier was declared twice, and len,
\* first_id, the two counts and the three bits never change afterwards.
C18_CountAccounting ==
  /\ []CountAccounts
  /\ [][CountFrozen]_vars

C18_Witness ==
  /\ ~Distinct(cases)
  /\ tag = "Fulfill"
  /\ machine.len = 3
  /\ CountSum = 2

\* C19: a selection that declares a would_block case is non-blocking:
\* Promise, Revoke and Fulfill are unreachable, so promise_*, revoke_*,
\* fulfill_*, current_reset and current_wait_until are never called, and the
\* selection ends within the first Try phase or with disconnected() or
\* would_block() returning true in the first sweep after it.
C19_WouldBlockNonBlocking ==
  "would_block" \in Declared =>
    /\ tag \in {"Count", "Try", "Disconnected", "WouldBlock"}
    /\ hist.rank <= Rank.try
    /\ hist.resets = 0 /\ hist.parks = 0 /\ hist.taborts = 0
    /\ hist.promises = 0 /\ hist.paborts = 0
    /\ \A p \in Positions :
         hist.promised[p] = 0 /\ hist.revoked[p] = 0 /\ hist.fulfilled[p] = 0
    /\ \A c \in RealIds : ~chan[c].reg
    /\ ~hist.looped
    /\ ~hist.wrapped
    /\ (tag = "Disconnected" => "disconnected" \in Declared)
    /\ (ended =>
          \/ tag = "Try" /\ result.ret = "Ok"
          \/ /\ tag \in {"Disconnected", "WouldBlock"}
             /\ result = [op |-> Matching(tag), ret |-> "true"])

C19_Witness ==
  /\ "would_block" \in Declared
  /\ NReal = 2
  /\ tag = "WouldBlock"
  /\ ended
  /\ result = [op |-> "would_block", ret |-> "true"]

\* C20: once Disconnected, WouldBlock or TimedOut is entered and the
\* matching synthetic case is declared, the matching synthetic call returns
\* true within the 2 * len slots of that terminal phase (no wrap-around of
\* the slot index happens first), at the slot that admits its position,
\* for every start_index and every position of the synthetic case; if the
\* matching case is not declared, no call returns committed or true.
C20_BoundedTerminalResponse ==
  tag \in TerminalTags =>
    IF Matching(tag) \in Declared
      THEN /\ ~hist.wrapped
           /\ machine.index <= 2 * machine.len
           /\ Len(hist.visits) <= machine.len
           /\ (machine.index >= machine.start_index + machine.len => ended)
           /\ (InVisits(PosOf(Matching(tag))) <=> ended)
           /\ (ended => result = [op |-> Matching(tag), ret |-> "true"])
      ELSE /\ ~ended
           /\ hist.commits = 0
           /\ result.ret \in {"Err", "false"}

C20_Witness ==
  /\ tag \in TerminalTags
  /\ Matching(tag) \in Declared
  /\ NCases = 3
  /\ machine.start_index = 2
  /\ PosOf(Matching(tag)) = 1
  /\ machine.index > machine.len
  /\ ended
  /\ result.ret = "true"

====
